---- MODULE Spec2Model ----
(***************************************************************************)
(* Attendance viewer (src/app.js): local credential verification, the      *)
(* session kept in localStorage, the role gate of showMainInterface, and   *)
(* the asynchronous handlers (page-load restore, login submit, logout)     *)
(* interleaved at their await points.                                      *)
(*                                                                         *)
(* Text is a sequence of character codes, so that trimming, concatenation, *)
(* UTF-8 encoding, hex encoding and truncation are computed, not assumed.  *)
(***************************************************************************)
EXTENDS Integers, Sequences, FiniteSets, TLC

(***************************************************************************)
(* Bounds of the model.                                                    *)
(***************************************************************************)
\* what happens to the page in one behaviour: login submits, reloads and
\* changes made to the users collection by other clients, together
MaxEvents == 2
\* the queries the data viewer sends in one behaviour
MaxFetches == 2

(***************************************************************************)
(* Text helpers.                                                           *)
(***************************************************************************)
Space == 32
Underscore == 95

\* String.prototype.trim(): leading and trailing white space removed
RECURSIVE TrimLeft(_)
TrimLeft(s) ==
    IF s # <<>> /\ Head(s) = Space THEN TrimLeft(Tail(s)) ELSE s

RECURSIVE TrimRight(_)
TrimRight(s) ==
    IF s # <<>> /\ s[Len(s)] = Space
    THEN TrimRight(SubSeq(s, 1, Len(s) - 1))
    ELSE s

Trim(s) == TrimRight(TrimLeft(s))

\* String(n) of a non-negative integer: its decimal digits
RECURSIVE ToDecimal(_)
ToDecimal(n) ==
    IF n < 10 THEN <<48 + n>> ELSE ToDecimal(n \div 10) \o <<48 + (n % 10)>>

\* String(x) of a Math.random() result: r stands for the digits after "0."
RandomToString(r) ==
    IF r = 0 THEN <<48>> ELSE <<48, 46>> \o ToDecimal(r)

\* TextEncoder.encode: the texts of the model are ASCII, one byte per code
UTF8(s) == [i \in 1..Len(s) |-> s[i] % 256]

\* b.toString(16): one lower-case hex digit
HexDigit(d) == IF d < 10 THEN 48 + d ELSE 87 + d

\* b.toString(16).padStart(2, '0')
HexByte(b) == <<HexDigit(b \div 16), HexDigit(b % 16)>>

\* Array.from(bytes).map(b => b.toString(16).padStart(2,'0')).join('')
RECURSIVE HexEncode(_)
HexEncode(bytes) ==
    IF bytes = <<>> THEN <<>>
    ELSE HexByte(Head(bytes)) \o HexEncode(Tail(bytes))

\* String.prototype.substring(0, n)
Substring0(s, n) == SubSeq(s, 1, IF Len(s) < n THEN Len(s) ELSE n)

(***************************************************************************)
(* crypto.subtle.digest('SHA-256', data): the browser's digest.  The model *)
(* keeps what the program relies on: a deterministic function of the bytes *)
(* whose result has a fixed width and does not contain its input.  The     *)
(* width is a bound of the model (SHA-256 gives 32 bytes).                 *)
(***************************************************************************)
DigestBytes == 4

RECURSIVE Mix(_, _)
Mix(bytes, h) ==
    IF bytes = <<>> THEN h
    ELSE Mix(Tail(bytes), (h * 33 + Head(bytes)) % 65521)

SHA256(bytes) ==
    LET m == Mix(bytes, 5381 + Len(bytes))
    IN  [i \in 1..DigestBytes |-> (m * i + 31 * i * i + (m \div 256)) % 256]

\* SECRET_KEY of config.js
SECRET_KEY == <<107, 51, 121>>

\* hashPassword(password)
hashPassword(password) ==
    HexEncode(SHA256(UTF8(password \o SECRET_KEY)))

TokenLen == 64

\* generateToken(ucId), with Date.now() = now and Math.random() = rnd
generateToken(ucId, now, rnd) ==
    LET tokenData == ucId \o <<Underscore>> \o ToDecimal(now)
                          \o <<Underscore>> \o RandomToString(rnd)
        data == UTF8(tokenData \o SECRET_KEY)
    IN  Substring0(HexEncode(data), TokenLen)


(***************************************************************************)
(* Values.                                                                 *)
(***************************************************************************)
\* null: getItem of a missing key, currentUser before login
Null == [t |-> "null"]
\* an attribute the document does not have (undefined)
Absent == "undefined"

UC100 == <<85, 67, 49, 48, 48>>
UC200 == <<85, 67, 50, 48, 48>>
UC999 == <<85, 67, 57, 57, 57>>
PwA == <<112, 64, 115, 115>>
PwB == <<112, 119, 50>>

\* what the user may have typed into ucIdInput and passwordInput at a submit
UcIdInputs == {UC100, UC200 \o <<Space>>, UC999, <<Space>>}
PasswordInputs == {PwA, PwB, <<>>}
\* Date.now() and Math.random() results
Millis == {1700}
Randoms == {0, 25}

Roles == {"admin", "moderator", "student", Absent}
DocOrder == <<"u1", "u2">>
DocIds == {DocOrder[i] : i \in 1..Len(DocOrder)}
NoDoc == [t |-> "nodoc"]

\* messages written to loginError
MsgNone == ""
MsgMissing == "Please enter both UC ID and password"
MsgLoggingIn == "Logging in..."
MsgInvalid == "Invalid UC ID or password"
MsgInactive == "Account is deactivated"
MsgFailedAuth == "Login failed: auth/network-request-failed"
MsgFailedStore == "Login failed: firestore/unavailable"

Keys == {"attendance_user", "attendance_token", "other"}
EmptyStorage == [k \in Keys |-> Null]
\* a stored text that JSON.parse rejects
Malformed == [t |-> "text", chars |-> <<123, 117>>]
TextItem(chars) == [t |-> "text", chars |-> chars]

\* JSON.stringify(user): the properties in insertion order; a property whose
\* value is undefined is left out
JSONstringify(user) ==
    [t |-> "json",
     pairs |-> << <<"id", user.id>>, <<"ucId", user.ucId>>,
                  <<"passwordHash", user.passwordHash>> >>
               \o (IF user.role = Absent THEN <<>>
                   ELSE << <<"role", user.role>> >>)
               \o << <<"isActive", user.isActive>> >>]

\* JSON.parse(text): the object, or the SyntaxError it throws
JSONparse(item) ==
    IF item.t # "json" THEN [ok |-> FALSE]
    ELSE LET get(k) ==
                 LET hit == SelectSeq(item.pairs, LAMBDA p : p[1] = k)
                 IN  IF hit = <<>> THEN Absent ELSE hit[Len(hit)][2]
         IN  [ok |-> TRUE,
              value |-> [id |-> get("id"), ucId |-> get("ucId"),
                         passwordHash |-> get("passwordHash"),
                         role |-> get("role"), isActive |-> get("isActive")]]

\* JavaScript truthiness of a localStorage item (null and '' are falsy)
Truthy(item) ==
    /\ item # Null
    /\ (item.t = "text" => item.chars # <<>>)

(***************************************************************************)
(* State.                                                                  *)
(***************************************************************************)
VARIABLES
    users,          \* the users collection of the backing store, by document id
    localStorage,   \* the origin's localStorage
    currentUser,    \* let currentUser
    display,        \* style.display of the containers and navigation links
    loginError,     \* loginError.textContent
    logins,         \* the login submit handlers suspended at an await, oldest first
    restore,        \* checkExistingSession of this page load
    events,         \* counter of the bound
    ev,             \* history: the last login outcome, logout or page load
    loggedOut       \* history: a logout ran and no later login has succeeded

\* the data viewer of the main interface
VARIABLES
    collectionSelect,       \* collectionSelect.value
    discoveredCollections,  \* let discoveredCollections
    dataDisplay,            \* what dataDisplay.innerHTML shows
    filterGroup,            \* the .filter-group element and its two selects
    allUsersData,           \* let allUsersData
    fetches,                \* the fetchCollectionData calls suspended at getDocs
    issued,                 \* counter of the bound: the queries sent so far
    newestUsers             \* history: the result of the latest 'users' query shown

viewerVars == <<collectionSelect, discoveredCollections, dataDisplay,
                filterGroup, allUsersData, fetches, issued, newestUsers>>

vars == <<users, localStorage, currentUser, display, loginError, logins,
          restore, events, ev, loggedOut, viewerVars>>


\* logins without its i-th handler, which has returned
Returned(i) == SubSeq(logins, 1, i - 1) \o SubSeq(logins, i + 1, Len(logins))
\* result: what checkExistingSession returned; why: history, the path it took
StartRestore == [pc |-> "start", user |-> Null, result |-> "pending",
                 why |-> "pending", preLogout |-> FALSE]

\* the page as its markup shows it before any script runs: the login view
InitialDisplay ==
    [loginContainer |-> "flex", mainContainer |-> "none",
     navigationLinks |-> "none", adminPanelLink |-> "none",
     createAccountLink |-> "none"]

\* match: the submitted password's fingerprint equals the looked-up record's
Event(op, outcome, match) ==
    [op |-> op, outcome |-> outcome, match |-> match]

(***************************************************************************)
(* The collaborators.                                                      *)
(***************************************************************************)
\* getDocs(query(collection(db,'users'), where('ucId','==',ucId))): the
\* matching documents, in document id order
DocsInOrder(coll) ==
    LET present == SelectSeq(DocOrder, LAMBDA d : coll[d] # NoDoc)
    IN  [i \in 1..Len(present) |-> [id |-> present[i], data |-> coll[present[i]]]]

QueryUsers(coll, ucId) ==
    SelectSeq(DocsInOrder(coll), LAMBDA doc : doc.data.ucId = ucId)

\* { id: doc.id, ...doc.data() }
UserOf(doc) ==
    [id |-> doc.id, ucId |-> doc.data.ucId,
     passwordHash |-> doc.data.passwordHash,
     role |-> doc.data.role, isActive |-> doc.data.isActive]

\* variant: only the two session entries are removed (removeItem twice)
ClearedSessionEntriesOnly ==
    [localStorage EXCEPT !["attendance_user"] = Null,
                         !["attendance_token"] = Null]

\* localStorage.clear()
Cleared == [k \in Keys |-> Null]

\* variant: the catch block only logs the error
SessionCheckFailedKeepsStorage(store) == store

\* the catch block of checkExistingSession (lines 96-99)
SessionCheckFailed(store) == Cleared

\* variant: the isActive test of line 87 left out
StillActiveUnchecked(snapshot) == snapshot # <<>>

\* lines 85-87: the re-resolved record exists and is active
StillActive(snapshot) == snapshot # <<>> /\ snapshot[1].data.isActive

\* variant: the parsed blob is trusted
RestoredUserFromBlob(cached, snapshot) == cached

\* line 88: the identity a successful restore establishes
RestoredUser(cached, snapshot) == UserOf(snapshot[1])

\* variant: the isActive test of line 136 left out
IsDeactivatedUnchecked(userData) == FALSE

\* line 136: if (!userData.isActive)
IsDeactivated(userData) == ~userData.isActive

\* variant: the comparison of line 143 left out
PasswordMismatchUnchecked(userData, passwordHash) == FALSE

\* line 143: userData.passwordHash !== passwordHash
PasswordMismatch(userData, passwordHash) == userData.passwordHash # passwordHash

\* saveSession(user), with the clock and random value generateToken reads
saveSession(store, user, now, rnd) ==
    [store EXCEPT !["attendance_user"] = JSONstringify(user),
                  !["attendance_token"] = TextItem(generateToken(user.ucId, now, rnd))]

\* showMainInterface(): the displays it assigns, by currentUser.role.  It
\* ends by starting the data viewer (initialize, lines 200-261), which
\* writes only statusEl, collectionSelect and discoveredCollections; no
\* session handler reads them.
showMainInterface(d, user) ==
    [d EXCEPT
       !.loginContainer = "none",
       !.mainContainer = "block",
       !.navigationLinks =
           IF user.role = "admin" \/ user.role = "moderator" THEN "flex" ELSE @,
       !.adminPanelLink =
           IF (user.role = "admin" \/ user.role = "moderator") /\ user.role = "admin"
           THEN "inline-block" ELSE @,
       !.createAccountLink =
           IF (user.role = "admin" \/ user.role = "moderator") /\ user.role = "admin"
           THEN "inline-block" ELSE @]

InitialUsers ==
    [d \in DocIds |->
        IF d = "u1"
        THEN [ucId |-> UC100, passwordHash |-> hashPassword(PwA),
              role |-> "admin", isActive |-> TRUE]
        ELSE [ucId |-> UC200, passwordHash |-> hashPassword(PwB),
              role |-> Absent, isActive |-> FALSE]]

\* what an earlier page lifetime may have left in localStorage: nothing, the
\* session saveSession wrote at a login of u1 or (before u2 was deactivated)
\* of u2, a damaged attendance_user, or one of the two entries alone; with or
\* without an entry of another script of the origin
InitialSessions ==
    { EmptyStorage,
      [EmptyStorage EXCEPT !["attendance_user"] = Malformed,
                           !["attendance_token"] =
                               TextItem(generateToken(UC100, 1700, 25))],
      [EmptyStorage EXCEPT !["attendance_user"] = Malformed] }
    \cup { saveSession(EmptyStorage,
                       [UserOf([id |-> d, data |-> InitialUsers[d]])
                          EXCEPT !.isActive = TRUE], now, 25)
           : d \in DocIds, now \in Millis }

InitialStorages ==
    InitialSessions
    \cup { [st EXCEPT !["other"] = TextItem(<<49>>)] : st \in InitialSessions }

(***************************************************************************)
(* The data viewer: its collections and what it shows.                     *)
(***************************************************************************)
\* collection names as ASCII codes; '' is <<>>
NameUsers == <<117, 115, 101, 114, 115>>
NameAttendance == <<97, 116, 116, 101, 110, 100, 97, 110, 99, 101>>
NameClasses == <<99, 108, 97, 115, 115, 101, 115>>
NameCourses == <<99, 111, 117, 114, 115, 101, 115>>
NameRecords == <<114, 101, 99, 111, 114, 100, 115>>
NameSessions == <<115, 101, 115, 115, 105, 111, 110, 115>>
NameLogs == <<108, 111, 103, 115>>
\* the value of the dropdown's last option, '__custom__'
CustomOption == <<95, 95, 99, 117, 115, 116, 111, 109, 95, 95>>

commonCollections ==
    {NameUsers, NameAttendance, NameClasses, NameCourses, NameRecords,
     NameSessions}

\* what prompt('Enter collection name:') returns: null when dismissed, else
\* the text typed
PromptInputs ==
    { [dismissed |-> TRUE, chars |-> <<>>],
      [dismissed |-> FALSE, chars |-> <<>>],
      [dismissed |-> FALSE, chars |-> <<Space>>],
      [dismissed |-> FALSE, chars |-> <<Space>> \o NameLogs] }

\* the documents of the attendance and records collections of the store;
\* the other collections besides users hold none
AttendanceDocs ==
    << [id |-> "a1", ucId |-> UC100, status |-> "present"],
       [id |-> "a2", ucId |-> UC200, status |-> "late"] >>

RecordsDocs ==
    << [id |-> "r1", ucId |-> UC100, course |-> "c1", term |-> "t1",
        grade |-> "g1", units |-> "n1", remarks |-> "k1"] >>

\* querySnapshot.forEach(doc => documents.push({ id: doc.id, ...doc.data() }))
\* over getDocs(collection(db, collectionName))
CollectionDocs(coll, collectionName) ==
    IF collectionName = NameUsers
    THEN [i \in 1..Len(DocsInOrder(coll)) |-> UserOf(DocsInOrder(coll)[i])]
    ELSE IF collectionName = NameAttendance THEN AttendanceDocs
    ELSE IF collectionName = NameRecords THEN RecordsDocs
    ELSE <<>>

\* the contents dataDisplay.innerHTML is set to
ShowInfo == [kind |-> "info", collectionName |-> <<>>, documents |-> <<>>,
             view |-> "none"]
ShowLoading == [kind |-> "loading", collectionName |-> <<>>,
                documents |-> <<>>, view |-> "none"]
ShowEmpty(collectionName) ==
    [kind |-> "empty", collectionName |-> collectionName, documents |-> <<>>,
     view |-> "none"]
ShowError == [kind |-> "error", collectionName |-> <<>>, documents |-> <<>>,
              view |-> "none"]

\* displayData(collectionName, documents): the heading, the count and the
\* view chosen by the collection and the number of distinct fields
displayData(collectionName, documents) ==
    LET allFields == {"id"} \cup UNION {DOMAIN documents[i] : i \in 1..Len(documents)}
    IN  [kind |-> "data", collectionName |-> collectionName,
         documents |-> documents,
         view |-> IF collectionName = NameUsers THEN "users"
                  ELSE IF Cardinality(allFields) <= 6 /\ Len(documents) > 0
                       THEN "table" ELSE "cards"]

\* no .filter-group element in the page
NoFilterGroup == [present |-> FALSE, roleFilter |-> "", statusFilter |-> ""]

\* addUserFilters(): nothing if the element exists, else a new one whose
\* selects show their first option
addUserFilters(group) ==
    IF group.present THEN group
    ELSE [present |-> TRUE, roleFilter |-> "", statusFilter |-> ""]

RoleFilters == {"", "student", "moderator", "admin"}
StatusFilters == {"", "active", "inactive"}

\* the list filterUsers() hands to displayData
FilteredUsers(all, roleFilter, statusFilter) ==
    LET byRole == IF roleFilter # ""
                  THEN SelectSeq(all, LAMBDA user : user.role = roleFilter)
                  ELSE all
    IN  IF statusFilter = "active"
        THEN SelectSeq(byRole, LAMBDA user : user.isActive = TRUE)
        ELSE IF statusFilter = "inactive"
             THEN SelectSeq(byRole, LAMBDA user : user.isActive = FALSE)
             ELSE byRole

\* the viewer of a freshly loaded page: nothing chosen, nothing fetched
ViewerInit ==
    /\ collectionSelect = <<>>
    /\ discoveredCollections = {}
    /\ dataDisplay = ShowInfo
    /\ filterGroup = NoFilterGroup
    /\ allUsersData = <<>>
    /\ fetches = <<>>
    /\ issued = 0
    /\ newestUsers = [seq |-> 0, documents |-> <<>>]

Init ==
    /\ users = InitialUsers
    /\ localStorage \in InitialStorages
    /\ currentUser = Null
    /\ display = InitialDisplay
    /\ loginError = MsgNone
    /\ logins = <<>>
    /\ restore = StartRestore
    /\ events = 0
    /\ ev = Event("load", "none", FALSE)
    /\ loggedOut = FALSE
    /\ ViewerInit

History(e) == ev' = e

(***************************************************************************)
(* checkExistingSession(), called once when the page's script runs.        *)
(***************************************************************************)
\* lines 73-81: up to the first await
RestoreBegin ==
    /\ restore.pc = "start"
    /\ LET userStr == localStorage["attendance_user"]
           token == localStorage["attendance_token"]
       IN  IF Truthy(userStr) /\ Truthy(token)
           THEN LET parsed == JSONparse(userStr)
                IN  IF parsed.ok
                    THEN /\ restore' = [restore EXCEPT !.pc = "auth",
                                                       !.user = parsed.value]
                         /\ localStorage' = localStorage
                    ELSE /\ restore' = [restore EXCEPT !.pc = "done",
                                                       !.result = "false",
                                                       !.why = "malformed"]
                         /\ localStorage' = SessionCheckFailed(localStorage)
           ELSE /\ restore' = [restore EXCEPT !.pc = "done", !.result = "false",
                                              !.why = "nosession"]
                /\ localStorage' = localStorage
    /\ UNCHANGED <<users, currentUser, display, loginError, logins, events,
                   ev, loggedOut>>

\* line 81 resumes: signInAnonymously resolved or rejected
RestoreAuthDone(ok) ==
    /\ restore.pc = "auth"
    /\ IF ok
       THEN /\ restore' = [restore EXCEPT !.pc = "lookup"]
            /\ localStorage' = localStorage
       ELSE /\ restore' = [restore EXCEPT !.pc = "done", !.result = "false",
                                          !.why = "autherror"]
            /\ localStorage' = SessionCheckFailed(localStorage)
    /\ UNCHANGED <<users, currentUser, display, loginError, logins, events,
                   ev, loggedOut>>

\* line 83 resumes: getDocs resolved or rejected
RestoreLookupDone(ok) ==
    /\ restore.pc = "lookup"
    /\ IF ~ok
       THEN /\ restore' = [restore EXCEPT !.pc = "done", !.result = "false",
                                          !.why = "storeerror"]
            /\ localStorage' = SessionCheckFailed(localStorage)
            /\ UNCHANGED <<currentUser, display>>
       ELSE LET snapshot == QueryUsers(users, restore.user.ucId)
            IN  IF StillActive(snapshot)
                THEN /\ currentUser' = RestoredUser(restore.user, snapshot)
                     /\ display' = showMainInterface(
                                      display, RestoredUser(restore.user, snapshot))
                     /\ restore' = [restore EXCEPT !.pc = "done",
                                                   !.result = "true",
                                                   !.why = "restored"]
                     /\ localStorage' = localStorage
                ELSE /\ restore' = [restore EXCEPT
                                      !.pc = "done", !.result = "false",
                                      !.why = IF snapshot = <<>> THEN "notfound"
                                              ELSE "inactive"]
                     /\ localStorage' = Cleared
                     /\ UNCHANGED <<currentUser, display>>
    /\ UNCHANGED <<users, loginError, logins, events, ev, loggedOut>>

(***************************************************************************)
(* The login form's submit handler.                                        *)
(***************************************************************************)
\* lines 106-121: up to the first await.  The form is inside
\* loginContainer: it can be submitted while that container is displayed,
\* also while an earlier submit or the restore is still suspended.
LoginSubmit(rawUcId, password) ==
    /\ restore.pc # "start"
    /\ display.loginContainer # "none"
    /\ events < MaxEvents
    /\ events' = events + 1
    /\ LET ucId == Trim(rawUcId)
       IN  IF ucId = <<>> \/ password = <<>>
           THEN /\ loginError' = MsgMissing
                /\ logins' = logins
                /\ History(Event("login", "missing", FALSE))
           ELSE /\ logins' = Append(logins,
                                    [pc |-> "auth", ucId |-> ucId,
                                     password |-> password, userData |-> Null,
                                     preLogout |-> FALSE])
                /\ loginError' = MsgLoggingIn
                /\ History(Event("login", "started", FALSE))
    /\ UNCHANGED <<users, localStorage, currentUser, display, restore,
                   loggedOut>>

\* line 121 resumes: signInAnonymously resolved or rejected
LoginAuthDone(i, ok) ==
    /\ i \in 1..Len(logins)
    /\ logins[i].pc = "auth"
    /\ IF ok
       THEN /\ logins' = [logins EXCEPT ![i].pc = "lookup"]
            /\ loginError' = loginError
            /\ ev' = ev
       ELSE /\ logins' = Returned(i)
            /\ loginError' = MsgFailedAuth
            /\ History(Event("login", "autherror", FALSE))
    /\ UNCHANGED <<users, localStorage, currentUser, display, restore, events, loggedOut>>

\* line 125 resumes: getDocs resolved or rejected; lines 127-142
LoginLookupDone(i, ok) ==
    /\ i \in 1..Len(logins)
    /\ logins[i].pc = "lookup"
    /\ LET op == logins[i]
           snapshot == QueryUsers(users, op.ucId)
       IN  IF ~ok
           THEN /\ logins' = Returned(i)
                /\ loginError' = MsgFailedStore
                /\ History(Event("login", "storeerror", FALSE))
           ELSE IF snapshot = <<>>
           THEN /\ logins' = Returned(i)
                /\ loginError' = MsgInvalid
                /\ History(Event("login", "unknown", FALSE))
           ELSE IF IsDeactivated(UserOf(snapshot[1]))
           THEN /\ logins' = Returned(i)
                /\ loginError' = MsgInactive
                /\ History(Event("login", "inactive",
                      UserOf(snapshot[1]).passwordHash = hashPassword(op.password)))
           ELSE /\ logins' = [logins EXCEPT ![i].pc = "hash",
                                            ![i].userData = UserOf(snapshot[1])]
                /\ loginError' = loginError
                /\ ev' = ev
    /\ UNCHANGED <<users, localStorage, currentUser, display, restore, events, loggedOut>>

\* line 142 resumes: the digest of hashPassword resolved; lines 143-151.
\* On success loginError keeps its text ('Logging in...').
LoginHashDone(i) ==
    /\ i \in 1..Len(logins)
    /\ logins[i].pc = "hash"
    /\ LET op == logins[i]
           passwordHash == hashPassword(op.password)
       IN  IF PasswordMismatch(op.userData, passwordHash)
           THEN /\ loginError' = MsgInvalid
                /\ History(Event("login", "mismatch", FALSE))
                /\ UNCHANGED <<localStorage, currentUser, display, loggedOut>>
           ELSE /\ currentUser' = op.userData
                /\ \E now \in Millis, rnd \in Randoms :
                     localStorage' = saveSession(localStorage, op.userData, now, rnd)
                /\ display' = showMainInterface(display, op.userData)
                /\ loginError' = loginError
                /\ loggedOut' = (IF op.preLogout THEN loggedOut ELSE FALSE)
                /\ History(Event("login", "success", TRUE))
    /\ logins' = Returned(i)
    /\ UNCHANGED <<users, restore, events>>

(***************************************************************************)
(* The logout button's click handler (lines 160-168).  The button is part  *)
(* of mainContainer: it can be clicked while that container is displayed.  *)
(* preLogout and loggedOut are history: they record which suspended        *)
(* handlers were started before this logout.                               *)
(***************************************************************************)
Logout ==
    /\ restore.pc # "start"
    /\ display.mainContainer # "none"
    /\ currentUser' = Null
    /\ localStorage' = Cleared
    /\ display' = [display EXCEPT !.loginContainer = "flex",
                                  !.mainContainer = "none"]
    /\ loginError' = MsgNone
    /\ logins' = [i \in 1..Len(logins) |-> [logins[i] EXCEPT !.preLogout = TRUE]]
    /\ restore' = IF restore.pc = "done" THEN restore
                  ELSE [restore EXCEPT !.preLogout = TRUE]
    /\ loggedOut' = TRUE
    /\ ev' = Event("logout", "done", FALSE)
    /\ UNCHANGED <<users, events>>

(***************************************************************************)
(* The page is loaded again: memory starts over, localStorage persists,    *)
(* the handlers of the old page are gone, the script runs from the top.    *)
(***************************************************************************)
Reload ==
    /\ restore.pc # "start"
    /\ events < MaxEvents
    /\ events' = events + 1
    /\ currentUser' = Null
    /\ display' = InitialDisplay
    /\ loginError' = MsgNone
    /\ logins' = <<>>
    /\ restore' = StartRestore
    /\ ev' = Event("load", IF ev.op = "logout" THEN "afterLogout" ELSE "none", FALSE)
    /\ UNCHANGED <<users, localStorage, loggedOut>>

(***************************************************************************)
(* Other clients change the users collection (an account is deactivated   *)
(* or reactivated, its role changes, it is removed) at any time, also      *)
(* while a handler is suspended.                                           *)
(***************************************************************************)
SetActive(d, b) ==
    /\ events < MaxEvents
    /\ users[d] # NoDoc
    /\ users[d].isActive # b
    /\ users' = [users EXCEPT ![d].isActive = b]
    /\ events' = events + 1
    /\ UNCHANGED <<localStorage, currentUser, display, loginError, logins,
                   restore, ev, loggedOut>>

SetRole(d, r) ==
    /\ events < MaxEvents
    /\ users[d] # NoDoc
    /\ users[d].role # r
    /\ users' = [users EXCEPT ![d].role = r]
    /\ events' = events + 1
    /\ UNCHANGED <<localStorage, currentUser, display, loginError, logins,
                   restore, ev, loggedOut>>

DeleteUser(d) ==
    /\ events < MaxEvents
    /\ users[d] # NoDoc
    /\ users' = [users EXCEPT ![d] = NoDoc]
    /\ events' = events + 1
    /\ UNCHANGED <<localStorage, currentUser, display, loginError, logins,
                   restore, ev, loggedOut>>

\* the session handlers; the viewer of the page is left alone (ViewerSpec
\* below runs it)
Next ==
    /\ \/ RestoreBegin
       \/ \E ok \in BOOLEAN : RestoreAuthDone(ok)
       \/ \E ok \in BOOLEAN : RestoreLookupDone(ok)
       \/ \E rawUcId \in UcIdInputs, password \in PasswordInputs :
            LoginSubmit(rawUcId, password)
       \/ \E i \in 1..MaxEvents, ok \in BOOLEAN : LoginAuthDone(i, ok)
       \/ \E i \in 1..MaxEvents, ok \in BOOLEAN : LoginLookupDone(i, ok)
       \/ \E i \in 1..MaxEvents : LoginHashDone(i)
       \/ Logout
       \/ Reload
       \/ \E d \in DocIds, b \in BOOLEAN : SetActive(d, b)
       \/ \E d \in DocIds, r \in Roles : SetRole(d, r)
       \/ \E d \in DocIds : DeleteUser(d)
    /\ UNCHANGED viewerVars

Spec == Init /\ [][Next]_vars

(***************************************************************************)
(* Properties.                                                             *)
(***************************************************************************)
\* what the users query of the i-th suspended login resolves to now
LookedUp(i) == QueryUsers(users, logins[i].ucId)

\* the submitted password's fingerprint equals the stored one
FingerprintMatches(i) ==
    /\ LookedUp(i) # <<>>
    /\ LookedUp(i)[1].data.passwordHash = hashPassword(logins[i].password)

SessionUntouched ==
    /\ localStorage' = localStorage
    /\ currentUser' = currentUser
    /\ display' = display

\* C1: a login whose lookup resolves to a record with isActive = false ends
\* with 'Account is deactivated', whatever the password (the matching one
\* too), writes nothing to localStorage and leaves currentUser and the views
\* as they were.
C1_InactiveLoginRejected ==
    [][\A i \in 1..Len(logins) :
         ( /\ LoginLookupDone(i, TRUE)
           /\ LookedUp(i) # <<>>
           /\ ~LookedUp(i)[1].data.isActive )
         => ( /\ loginError' = MsgInactive
              /\ logins' = Returned(i)
              /\ SessionUntouched )]_vars

\* a login with the matching password has just been refused as deactivated
C1_Witness ==
    /\ ev = Event("login", "inactive", TRUE)
    /\ loginError = MsgInactive
    /\ currentUser = Null
    /\ localStorage["attendance_token"] = Null

\* C2: 'Account is deactivated' is reported only for a record that is found,
\* whose fingerprint matches and that is inactive; an unknown identifier or
\* a mismatching fingerprint always ends with 'Invalid UC ID or password'.
C2_ErrorTaxonomy ==
    [][\A i \in 1..Len(logins) :
         ( /\ LoginLookupDone(i, TRUE) \/ LoginHashDone(i)
           /\ logins' = Returned(i) )
         => ( /\ (loginError' = MsgInactive /\ logins[i].pc = "lookup")
                   => (FingerprintMatches(i) /\ ~LookedUp(i)[1].data.isActive)
              /\ (logins[i].pc = "lookup" /\ ~FingerprintMatches(i))
                   => loginError' = MsgInvalid
              /\ (logins[i].pc = "hash"
                    /\ logins[i].userData.passwordHash
                         # hashPassword(logins[i].password))
                   => loginError' = MsgInvalid )]_vars

\* the role gate of section 4.3
GateOf(role) ==
    [navigationLinks |-> role \in {"admin", "moderator"},
     adminPanelLink |-> role = "admin",
     createAccountLink |-> role = "admin"]

Visible(d) ==
    [navigationLinks |-> d.navigationLinks # "none",
     adminPanelLink |-> d.adminPanelLink # "none",
     createAccountLink |-> d.createAccountLink # "none"]

\* C3: whenever the main interface is shown, the visible navigation is
\* exactly what the current identity's role unlocks (no role: student).
C3_NavigationMatchesRole ==
    (display.mainContainer # "none" /\ currentUser # Null)
        => Visible(display) = GateOf(currentUser.role)

\* what the users query of the page-load restore resolves to now
Reresolved == QueryUsers(users, restore.user.ucId)

SessionEntriesRemoved(store) ==
    /\ store["attendance_user"] = Null
    /\ store["attendance_token"] = Null

\* C4: a restore of a stored session whose identity is re-resolved as
\* inactive, or is not found, returns false, clears localStorage and neither
\* shows the main interface nor sets the current identity.
C4_StaleSessionRejected ==
    [][( /\ RestoreLookupDone(TRUE)
         /\ (Reresolved = <<>> \/ ~Reresolved[1].data.isActive) )
       => ( /\ restore'.pc = "done"
            /\ restore'.result = "false"
            /\ localStorage' = [k \in Keys |-> Null]
            /\ display' = display
            /\ currentUser' = currentUser )]_vars

\* the stored identity was active when the session was saved and is
\* inactive at the restore, which has returned false on an emptied storage
C4_Witness ==
    /\ restore.why = "inactive"
    /\ restore.user.isActive = TRUE
    /\ restore.result = "false"
    /\ localStorage = [k \in Keys |-> Null]
    /\ currentUser = Null
    /\ display.mainContainer = "none"

\* the step is a login handler returning without having verified the
\* password: empty input, a failed auth or lookup call, an unknown
\* identifier, an inactive account or a mismatching fingerprint
FailedLoginStep ==
    \/ \E rawUcId \in UcIdInputs, password \in PasswordInputs :
         /\ LoginSubmit(rawUcId, password)
         /\ (Trim(rawUcId) = <<>> \/ password = <<>>)
    \/ \E i \in 1..Len(logins) :
         \/ LoginAuthDone(i, FALSE)
         \/ LoginLookupDone(i, FALSE)
         \/ /\ LoginLookupDone(i, TRUE)
            /\ (LookedUp(i) = <<>> \/ ~LookedUp(i)[1].data.isActive)
         \/ /\ LoginHashDone(i)
            /\ logins[i].userData.passwordHash # hashPassword(logins[i].password)

FailureMessages ==
    {MsgMissing, MsgInvalid, MsgInactive, MsgFailedAuth, MsgFailedStore}

RestoreErrorStep ==
    \/ /\ RestoreBegin
       /\ Truthy(localStorage["attendance_user"])
       /\ Truthy(localStorage["attendance_token"])
       /\ ~JSONparse(localStorage["attendance_user"]).ok
    \/ RestoreAuthDone(FALSE)
    \/ RestoreLookupDone(FALSE)

\* C6: an error during the restore makes it return false with both session
\* entries removed, the views and the current identity left as they were.
C6_RestoreErrorClearsSession ==
    [][RestoreErrorStep
       => ( /\ restore'.pc = "done"
            /\ restore'.result = "false"
            /\ SessionEntriesRemoved(localStorage')
            /\ display' = display
            /\ currentUser' = currentUser )]_vars

\* an unparsable attendance_user with a token: false, entries gone, login view
C6_Witness ==
    /\ restore.why = "malformed"
    /\ restore.result = "false"
    /\ SessionEntriesRemoved(localStorage)
    /\ display.loginContainer = "flex"
    /\ display.mainContainer = "none"

DigestToken(ucId, now, rnd) ==
    LET tokenData == ucId \o <<Underscore>> \o ToDecimal(now)
                          \o <<Underscore>> \o RandomToString(rnd)
    IN  Substring0(HexEncode(SHA256(UTF8(tokenData \o SECRET_KEY))), TokenLen)

\* C8: a successful login stores the serialized identity under
\* attendance_user and, under attendance_token, the hex SHA-256 digest of
\* externalId_millis_random+secret cut to 64 characters.
C8_TokenIsDigest ==
    [][\A i \in 1..Len(logins) :
         ( /\ LoginHashDone(i)
           /\ logins[i].userData.passwordHash = hashPassword(logins[i].password) )
         => ( /\ localStorage'["attendance_user"] = JSONstringify(logins[i].userData)
              /\ \E now \in Millis, rnd \in Randoms :
                   localStorage'["attendance_token"]
                     = TextItem(DigestToken(logins[i].ucId, now, rnd)) )]_vars

\* C9: after the logout handler no entry is left in localStorage, and the
\* restore of the page load that follows returns false at once (no auth or
\* lookup call) and shows nothing.
C9_LogoutThenRestore ==
    [][ /\ Logout => localStorage' = [k \in Keys |-> Null]
        /\ (ev.outcome = "afterLogout" /\ RestoreBegin)
             => ( /\ restore'.pc = "done"
                  /\ restore'.result = "false"
                  /\ currentUser' = Null
                  /\ display' = display
                  /\ display'.mainContainer = "none" ) ]_vars

\* the page was reloaded right after a logout and its restore has returned
C9_Witness ==
    /\ ev.outcome = "afterLogout"
    /\ restore.pc = "done"
    /\ restore.why = "nosession"
    /\ localStorage = [k \in Keys |-> Null]

\* C10: once the logout handler has run, and until a login submitted after
\* it succeeds, the current identity is null, no session is stored and the
\* login view is shown; handlers suspended since before the logout do not
\* bring the session back.
C10_LogoutIsFinal ==
    loggedOut
      => ( /\ currentUser = Null
           /\ SessionEntriesRemoved(localStorage)
           /\ display.mainContainer = "none"
           /\ display.loginContainer # "none" )

\* no handler is suspended: the restore has returned and so has every login
Quiescent == restore.pc = "done" /\ logins = <<>>

\* C11: in every quiescent state the main interface is shown iff there is a
\* current identity, and then a token is stored and attendance_user holds
\* an identity with the current identity's ucId; in particular a failing
\* restore does not wipe the session of a login that completed meanwhile.
C11_IdentityAgreesWithSession ==
    Quiescent
      => ( /\ (display.mainContainer # "none") <=> (currentUser # Null)
           /\ currentUser # Null
                => ( /\ Truthy(localStorage["attendance_token"])
                     /\ Truthy(localStorage["attendance_user"])
                     /\ JSONparse(localStorage["attendance_user"]).ok
                     /\ JSONparse(localStorage["attendance_user"]).value.ucId
                          = currentUser.ucId ) )


(***************************************************************************)
(* The data viewer (lines 264-433 and 571-595), on a page whose session    *)
(* has been restored.  Its handlers are the dropdown's change listener,    *)
(* the refresh button's click listener and the change listeners of the     *)
(* two filter selects; fetchCollectionData is suspended once, at getDocs.  *)
(* The store answers a query at some moment between the request and the    *)
(* response, so responses can overtake each other and carry different      *)
(* snapshots.                                                              *)
(***************************************************************************)
sessionVars == <<users, localStorage, currentUser, display, loginError,
                 logins, restore, events, ev, loggedOut>>

\* the values of the dropdown's options (populateCollections)
Options == {<<>>} \cup commonCollections \cup discoveredCollections
                  \cup {CustomOption}

\* every value an option of the dropdown can come to have
SelectableNames ==
    {<<>>} \cup commonCollections
           \cup {Trim(customName.chars) : customName \in PromptInputs}
           \cup {CustomOption}

\* fetches without its i-th call, which has returned
Fetched(i) == SubSeq(fetches, 1, i - 1) \o SubSeq(fetches, i + 1, Len(fetches))

\* fetchCollectionData(collectionName), lines 346-357: up to the await
fetchCollectionData(collectionName) ==
    IF collectionName = <<>>
    THEN /\ dataDisplay' = ShowInfo
         /\ filterGroup' = NoFilterGroup
         /\ UNCHANGED <<fetches, issued>>
    ELSE /\ issued < MaxFetches
         /\ dataDisplay' = ShowLoading
         /\ fetches' = Append(fetches, [collectionName |-> collectionName,
                                        seq |-> issued + 1, served |-> FALSE,
                                        documents |-> <<>>])
         /\ issued' = issued + 1
         /\ UNCHANGED filterGroup

\* the change listener of collectionSelect for an option that names a
\* collection or is the placeholder
SelectCollection(value) ==
    /\ display.mainContainer # "none"
    /\ value \in Options \ {CustomOption}
    /\ value # collectionSelect
    /\ collectionSelect' = value
    /\ fetchCollectionData(value)
    /\ UNCHANGED <<discoveredCollections, allUsersData, newestUsers, sessionVars>>

\* the change listener of collectionSelect for the '__custom__' option
SelectCustom(customName) ==
    /\ display.mainContainer # "none"
    /\ IF ~customName.dismissed /\ customName.chars # <<>>
          /\ Trim(customName.chars) # <<>>
       THEN LET trimmedName == Trim(customName.chars)
            IN  /\ discoveredCollections' = discoveredCollections \cup {trimmedName}
                /\ collectionSelect' = trimmedName
                /\ fetchCollectionData(trimmedName)
       ELSE /\ collectionSelect' = <<>>
            /\ UNCHANGED <<discoveredCollections, dataDisplay, filterGroup,
                           fetches, issued>>
    /\ UNCHANGED <<allUsersData, newestUsers, sessionVars>>

\* the click listener of refreshBtn
Refresh ==
    /\ display.mainContainer # "none"
    /\ collectionSelect # <<>>
    /\ collectionSelect # CustomOption
    /\ fetchCollectionData(collectionSelect)
    /\ UNCHANGED <<collectionSelect, discoveredCollections, allUsersData,
                   newestUsers, sessionVars>>

\* the store evaluates the query of the i-th suspended call
FetchServed(i) ==
    /\ i \in 1..Len(fetches)
    /\ ~fetches[i].served
    /\ fetches' = [fetches EXCEPT
                     ![i].served = TRUE,
                     ![i].documents = CollectionDocs(users, fetches[i].collectionName)]
    /\ UNCHANGED <<collectionSelect, discoveredCollections, dataDisplay,
                   filterGroup, allUsersData, issued, newestUsers, sessionVars>>

\* lines 357-399: getDocs of the i-th suspended call resolves (ok) or rejects
FetchDone(i, ok) ==
    /\ i \in 1..Len(fetches)
    /\ ok => fetches[i].served
    /\ LET collectionName == fetches[i].collectionName
           documents == fetches[i].documents
       IN  IF ~ok
           THEN /\ dataDisplay' = ShowError
                /\ UNCHANGED <<filterGroup, allUsersData, newestUsers>>
           ELSE IF documents = <<>>
           THEN /\ dataDisplay' = ShowEmpty(collectionName)
                /\ UNCHANGED <<filterGroup, allUsersData, newestUsers>>
           ELSE /\ allUsersData' = IF collectionName = NameUsers
                                   THEN documents ELSE allUsersData
                /\ filterGroup' = IF collectionName = NameUsers
                                  THEN addUserFilters(filterGroup)
                                  ELSE NoFilterGroup
                /\ dataDisplay' = displayData(collectionName, documents)
                /\ newestUsers' =
                       IF collectionName = NameUsers
                          /\ fetches[i].seq > newestUsers.seq
                       THEN [seq |-> fetches[i].seq, documents |-> documents]
                       ELSE newestUsers
    /\ fetches' = Fetched(i)
    /\ UNCHANGED <<collectionSelect, discoveredCollections, issued, sessionVars>>

\* filterUsers(), the change listener of both filter selects, after the
\* select that changed took its new value
filterUsers(group) ==
    /\ filterGroup' = group
    /\ dataDisplay' =
           IF collectionSelect # NameUsers THEN dataDisplay
           ELSE displayData(NameUsers,
                            FilteredUsers(allUsersData, group.roleFilter,
                                          group.statusFilter))
    /\ UNCHANGED <<collectionSelect, discoveredCollections, allUsersData,
                   fetches, issued, newestUsers, sessionVars>>

RoleFilterChange(value) ==
    /\ display.mainContainer # "none"
    /\ filterGroup.present
    /\ value # filterGroup.roleFilter
    /\ filterUsers([filterGroup EXCEPT !.roleFilter = value])

StatusFilterChange(value) ==
    /\ display.mainContainer # "none"
    /\ filterGroup.present
    /\ value # filterGroup.statusFilter
    /\ filterUsers([filterGroup EXCEPT !.statusFilter = value])

\* the page after checkExistingSession restored the stored session of u1
\* (the path RestoreBegin, RestoreAuthDone(TRUE), RestoreLookupDone(TRUE))
RestoredPage ==
    LET stored == saveSession(EmptyStorage,
                              UserOf([id |-> "u1", data |-> InitialUsers["u1"]]),
                              1700, 25)
        user == UserOf([id |-> "u1", data |-> InitialUsers["u1"]])
    IN  /\ users = InitialUsers
        /\ localStorage = stored
        /\ currentUser = user
        /\ display = showMainInterface(InitialDisplay, user)
        /\ loginError = MsgNone
        /\ logins = <<>>
        /\ restore = [StartRestore EXCEPT
                         !.pc = "done",
                         !.user = JSONparse(stored["attendance_user"]).value,
                         !.result = "true", !.why = "restored"]
        /\ events = 0
        /\ ev = Event("load", "none", FALSE)
        /\ loggedOut = FALSE

\* another client activates or deactivates a user while the viewer is open
SetActiveMeanwhile(d, b) == SetActive(d, b) /\ UNCHANGED viewerVars

ViewerNext ==
    \/ \E value \in SelectableNames : SelectCollection(value)
    \/ \E customName \in PromptInputs : SelectCustom(customName)
    \/ Refresh
    \/ \E i \in 1..MaxFetches : FetchServed(i)
    \/ \E i \in 1..MaxFetches, ok \in BOOLEAN : FetchDone(i, ok)
    \/ \E value \in RoleFilters : RoleFilterChange(value)
    \/ \E value \in StatusFilters : StatusFilterChange(value)
    \/ \E d \in DocIds, b \in BOOLEAN : SetActiveMeanwhile(d, b)

ViewerPage == RestoredPage /\ ViewerInit

ViewerSpec == ViewerPage /\ [][ViewerNext]_vars

\* no fetchCollectionData call is suspended and the dropdown names a collection
ViewerIdle ==
    /\ fetches = <<>>
    /\ collectionSelect # <<>>
    /\ collectionSelect # CustomOption

\* C12: when no fetch is in flight, the documents (or the empty-collection
\* notice) on display are those of the collection selected in the dropdown,
\* the filter controls accompany a document display only of 'users', and the
\* filters work on the list of the latest 'users' fetch; a response for an
\* earlier selection that arrives late changes none of this.
C12_DisplayFollowsSelection ==
    ViewerIdle
      => /\ dataDisplay.kind \in {"data", "empty"}
              => dataDisplay.collectionName = collectionSelect
         /\ (filterGroup.present /\ dataDisplay.kind = "data")
              => collectionSelect = NameUsers
         /\ newestUsers.seq > 0 => allUsersData = newestUsers.documents

====
